---- MODULE Spec2Model ----
(***************************************************************************)
(* State-machine model of src/app.py: the chat assistant object            *)
(* (CodeChatAssistant), the learning store (SistemaAprendizaje) and the    *)
(* Flask handlers /, /chat and /new_chat.                                  *)
(*                                                                         *)
(* Text is a sequence of one-character strings, so that strip(), lower()   *)
(* and the substring test "in" are computed as Python computes them.       *)
(* Fixed template fragments of a formatted reply are single multi-character*)
(* elements of such a sequence.  Engagement and effectiveness are floats   *)
(* with one decimal place in the code (len/10 + 2); they are kept here in  *)
(* tenths (fixed point), see Decimas.                                      *)
(***************************************************************************)
EXTENDS Integers, Sequences, FiniteSets, TLC

\* ------------------------------------------------------------------ bounds
\* Number of /chat requests with a non-empty message a run contains.
MaxChats == 2
\* Number of session identifiers index() and new_chat() hand out.
MaxIds == 2
\* Largest value of the clock that datetime.now() reads.
MaxReloj == 2
\* SpecSesion: number of add_message calls applied to one object.
MaxAppends == 3
\* SpecAprendizaje: number of evaluar_respuesta calls.
MaxEvaluaciones == 3
\* SpecDetectar, SpecExtraer: number of fragments a message is made of.
MaxFragmentos == 2

Navegadores == {"b1"}
Peticiones == {"p1", "p2"}

\* ------------------------------------------------------- program constants
\* self.max_historial = 20
DefaultMaxHistorial == 20
\* one unit of engagement, in tenths: engagement = len(user_message) / 10 + 2
Decimas == 10
\* len(codigo_usuario) > 10
MinLargoCodigo == 10
modelos == << "openai/gpt-oss-120b", "llama-3.3-70b-versatile", "llama-3.1-8b-instant" >>
NumModelos == Len(modelos)

\* --------------------------------------------------------------- text
Min(a, b) == IF a < b THEN a ELSE b
Max(a, b) == IF a > b THEN a ELSE b

Espacios == {" ", "\n", "\t", "\r"}

RECURSIVE lstrip(_)
lstrip(s) == IF Len(s) > 0 /\ Head(s) \in Espacios THEN lstrip(Tail(s)) ELSE s

RECURSIVE rstrip(_)
rstrip(s) ==
  IF Len(s) > 0 /\ s[Len(s)] \in Espacios THEN rstrip(SubSeq(s, 1, Len(s) - 1)) ELSE s

\* strip, had line 289 kept the message as received
strip_sin_recorte(s) == s

\* str.strip()
strip(s) == rstrip(lstrip(s))

Mayusculas ==
  << "A","B","C","D","E","F","G","H","I","J","K","L","M",
     "N","O","P","Q","R","S","T","U","V","W","X","Y","Z" >>
Minusculas ==
  << "a","b","c","d","e","f","g","h","i","j","k","l","m",
     "n","o","p","q","r","s","t","u","v","w","x","y","z" >>

lower_char(c) ==
  IF \E i \in 1..Len(Mayusculas) : Mayusculas[i] = c
  THEN Minusculas[CHOOSE i \in 1..Len(Mayusculas) : Mayusculas[i] = c]
  ELSE c

upper_char(c) ==
  IF \E i \in 1..Len(Minusculas) : Minusculas[i] = c
  THEN Mayusculas[CHOOSE i \in 1..Len(Minusculas) : Minusculas[i] = c]
  ELSE c

\* str.lower(), str.upper()
lower(s) == [i \in 1..Len(s) |-> lower_char(s[i])]
upper(s) == [i \in 1..Len(s) |-> upper_char(s[i])]

\* Python's "k in s" for a non-empty k
Contiene(k, s) ==
  \E i \in 1..(Len(s) - Len(k) + 1) : \A j \in 1..Len(k) : s[i + j - 1] = k[j]

\* lenguaje_actual = None
None == << "None" >>
General == << "G","e","n","e","r","a","l" >>
Python == << "P","y","t","h","o","n" >>
JavaScript == << "J","a","v","a","S","c","r","i","p","t" >>

lenguajes_keywords ==
  << [lenguaje |-> <<"P","y","t","h","o","n">>,
      keywords |-> <<
        <<"p","y","t","h","o","n">>,
        <<"d","e","f"," ">>,
        <<"i","m","p","o","r","t"," ">>,
        <<"p","r","i","n","t","(">>,
        <<"n","u","m","p","y">>,
        <<"p","a","n","d","a","s">>,
        <<"_","_","m","a","i","n","_","_">>,
        <<"i","f"," ","_","_","n","a","m","e","_","_">> >>],
     [lenguaje |-> <<"J","a","v","a","S","c","r","i","p","t">>,
      keywords |-> <<
        <<"j","a","v","a","s","c","r","i","p","t">>,
        <<"j","s">>,
        <<"f","u","n","c","t","i","o","n","(",")">>,
        <<"c","o","n","s","o","l","e",".","l","o","g">>,
        <<"r","e","a","c","t">>,
        <<"v","u","e">>,
        <<"a","n","g","u","l","a","r">>,
        <<"d","o","c","u","m","e","n","t",".">>,
        <<"w","i","n","d","o","w",".">> >>],
     [lenguaje |-> <<"J","a","v","a">>,
      keywords |-> <<
        <<"j","a","v","a">>,
        <<"p","u","b","l","i","c"," ","c","l","a","s","s">>,
        <<"S","y","s","t","e","m",".","o","u","t">>,
        <<"s","p","r","i","n","g">>,
        <<"v","o","i","d"," ","m","a","i","n">>,
        <<"S","t","r","i","n","g","[","]">>,
        <<"i","m","p","o","r","t"," ","j","a","v","a">> >>],
     [lenguaje |-> <<"H","T","M","L","/","C","S","S">>,
      keywords |-> <<
        <<"h","t","m","l">>,
        <<"c","s","s">>,
        <<"<","d","i","v",">">>,
        <<"c","l","a","s","s","=">>,
        <<"s","t","y","l","e","=">>,
        <<"<","h","t","m","l">>,
        <<"<","b","o","d","y">>,
        <<"c","o","l","o","r",":">>,
        <<"f","o","n","t","-","s","i","z","e">> >>],
     [lenguaje |-> <<"R","e","a","c","t">>,
      keywords |-> <<
        <<"r","e","a","c","t">>,
        <<"u","s","e","S","t","a","t","e">>,
        <<"c","o","m","p","o","n","e","n","t">>,
        <<"j","s","x">>,
        <<"u","s","e","E","f","f","e","c","t">>,
        <<"p","r","o","p","s">>,
        <<"s","e","t","S","t","a","t","e">> >>],
     [lenguaje |-> <<"N","o","d","e",".","j","s">>,
      keywords |-> <<
        <<"n","o","d","e">>,
        <<"e","x","p","r","e","s","s">>,
        <<"r","e","q","u","i","r","e","(">>,
        <<"n","p","m">>,
        <<"m","o","d","u","l","e",".","e","x","p","o","r","t","s">>,
        <<"a","p","p",".","g","e","t">>,
        <<"a","p","p",".","p","o","s","t">> >>],
     [lenguaje |-> <<"S","Q","L">>,
      keywords |-> <<
        <<"s","q","l">>,
        <<"s","e","l","e","c","t">>,
        <<"i","n","s","e","r","t">>,
        <<"u","p","d","a","t","e">>,
        <<"d","e","l","e","t","e">>,
        <<"w","h","e","r","e">>,
        <<"f","r","o","m">>,
        <<"j","o","i","n">>,
        <<"t","a","b","l","e">> >>],
     [lenguaje |-> <<"C","+","+">>,
      keywords |-> <<
        <<"c","+","+">>,
        <<"#","i","n","c","l","u","d","e">>,
        <<"c","o","u","t"," ","<","<">>,
        <<"c","i","n"," ",">",">">>,
        <<"s","t","d",":",":">>,
        <<"v","e","c","t","o","r","<">>,
        <<"c","l","a","s","s"," ">> >>],
     [lenguaje |-> <<"T","y","p","e","S","c","r","i","p","t">>,
      keywords |-> <<
        <<"t","y","p","e","s","c","r","i","p","t">>,
        <<"t","s">>,
        <<"i","n","t","e","r","f","a","c","e">>,
        <<"t","y","p","e"," ">>,
        <<"c","o","n","s","t",":">>,
        <<"f","u","n","c","t","i","o","n","(">> >>] >>

\* ----------------------------------------------------- SistemaAprendizaje
\* respuestas_efectivas is the two-level dict lenguaje -> respuesta_bot ->
\* stats.  A language key is only ever created together with its first
\* response (lines 87-94), so the dict is kept as one map from the pairs
\* <<lenguaje, respuesta_bot>> present to their stats.
SinRespuestas == [k \in {} |-> 0]

\* The file datos/aprendizaje.json: absent, readable with its content, or
\* left unreadable by a write that failed after open(..., 'w') truncated it.
ArchivoAusente == [existe |-> FALSE, legible |-> FALSE, datos |-> SinRespuestas]
ArchivoCon(d) == [existe |-> TRUE, legible |-> TRUE, datos |-> d]
ArchivoTruncado == [existe |-> TRUE, legible |-> FALSE, datos |-> SinRespuestas]

\* __init__ + cargar_aprendizaje: the dict starts empty and is replaced by
\* the file's content when the file exists and open/json.load succeed
\* (lectura_ok); any exception is logged and leaves the empty dict.
cargar_aprendizaje(arch, lectura_ok) ==
  IF arch.existe /\ arch.legible /\ lectura_ok THEN arch.datos ELSE SinRespuestas

\* guardar_aprendizaje: the outcomes of writing the dict d over the file.
\* "ok" overwrites it; "sin_abrir" fails in makedirs/open and leaves the file
\* alone; "truncado" fails after open(..., 'w').  Every exception is logged
\* and swallowed.
ResultadosGuardar == {"ok", "sin_abrir", "truncado"}

guardar_aprendizaje(arch, d, resultado) ==
  CASE resultado = "ok" -> ArchivoCon(d)
    [] resultado = "sin_abrir" -> arch
    [] resultado = "truncado" -> ArchivoTruncado

\* efectividad_de without the lower limit: min(10, engagement)
efectividad_sin_minimo(engagement) == Min(10 * Decimas, engagement)

\* efectividad = min(10, max(1, engagement)), in tenths
efectividad_de(engagement) == Min(10 * Decimas, Max(1 * Decimas, engagement))

\* evaluar_respuesta without line 96: the use is not counted
evaluar_respuesta_sin_uso(respuestas_efectivas, lenguaje, respuesta_usuario, respuesta_bot, engagement, ahora) ==
  IF Len(strip(lenguaje)) = 0 \/ Len(strip(respuesta_bot)) = 0
  THEN respuestas_efectivas
  ELSE LET k == << lenguaje, respuesta_bot >>
           previo == IF k \in DOMAIN respuestas_efectivas
                     THEN respuestas_efectivas[k]
                     ELSE [efectividad_total |-> 0, veces_usada |-> 0,
                           ultimo_uso |-> ahora]
           nuevo == [efectividad_total |->
                       previo.efectividad_total + efectividad_de(engagement),
                     veces_usada |-> previo.veces_usada,
                     ultimo_uso |-> ahora]
       IN [x \in DOMAIN respuestas_efectivas \cup {k} |->
             IF x = k THEN nuevo ELSE respuestas_efectivas[x]]

\* evaluar_respuesta, lines 82-97: the dict after the call (guardar_aprendizaje
\* of line 98 is applied by the action that uses this operator, see
\* AnalizarExito and AprEvaluar).
evaluar_respuesta(respuestas_efectivas, lenguaje, respuesta_usuario, respuesta_bot, engagement, ahora) ==
  IF Len(strip(lenguaje)) = 0 \/ Len(strip(respuesta_bot)) = 0
  THEN respuestas_efectivas
  ELSE LET k == << lenguaje, respuesta_bot >>
           previo == IF k \in DOMAIN respuestas_efectivas
                     THEN respuestas_efectivas[k]
                     ELSE [efectividad_total |-> 0, veces_usada |-> 0,
                           ultimo_uso |-> ahora]
           nuevo == [efectividad_total |->
                       previo.efectividad_total + efectividad_de(engagement),
                     veces_usada |-> previo.veces_usada + 1,
                     ultimo_uso |-> ahora]
       IN [x \in DOMAIN respuestas_efectivas \cup {k} |->
             IF x = k THEN nuevo ELSE respuestas_efectivas[x]]

\* evaluar_respuesta returns at line 83 or 85 without reaching line 98
evaluar_guarda(lenguaje, respuesta_bot) ==
  Len(strip(lenguaje)) > 0 /\ Len(strip(respuesta_bot)) > 0

\* ----------------------------------------------------- CodeChatAssistant
\* __init__: sistema_aprendizaje holds the respuestas_efectivas dict of the
\* SistemaAprendizaje instance this object creates for itself (line 125).
CodeChatAssistant(uuid, aprendizaje) ==
  [history |-> << >>,
   session_id |-> uuid,
   contador_interacciones |-> 0,
   max_historial |-> DefaultMaxHistorial,
   sistema_aprendizaje |-> aprendizaje,
   lenguaje_actual |-> None]

\* add_message without line 129
add_message_sin_contador(self, role, content) ==
  [self EXCEPT
     !.history = Append(@, [role |-> role, content |-> content,
                            code_snippet |-> None])]

\* add_message, lines 128-129: the entry is appended and counted; nothing is
\* removed from history.
add_message(self, role, content) ==
  [self EXCEPT
     !.history = Append(@, [role |-> role, content |-> content,
                            code_snippet |-> None]),
     !.contador_interacciones = @ + 1]

\* get_conversation_context without the slice: the whole history
get_conversation_context_todo(self) == self.history

\* self.history[-self.max_historial:]
get_conversation_context(self) ==
  LET n == Len(self.history)
  IN IF self.max_historial = 0 \/ n <= self.max_historial
     THEN self.history
     ELSE SubSeq(self.history, n - self.max_historial + 1, n)

to_dict(self) ==
  [history |-> self.history,
   session_id |-> self.session_id,
   contador_interacciones |-> self.contador_interacciones,
   max_historial |-> self.max_historial,
   lenguaje_actual |-> self.lenguaje_actual]

\* from_dict without line 145: the counter stays as cls() set it
from_dict_sin_contador(data, uuid, aprendizaje) ==
  [history |-> IF "history" \in DOMAIN data THEN data.history ELSE << >>,
   session_id |-> IF "session_id" \in DOMAIN data THEN data.session_id ELSE uuid,
   contador_interacciones |-> 0,
   max_historial |->
     IF "max_historial" \in DOMAIN data THEN data.max_historial
     ELSE DefaultMaxHistorial,
   sistema_aprendizaje |-> aprendizaje,
   lenguaje_actual |->
     IF "lenguaje_actual" \in DOMAIN data THEN data.lenguaje_actual ELSE None]

\* from_dict without line 147: lenguaje_actual stays as cls() set it
from_dict_sin_lenguaje(data, uuid, aprendizaje) ==
  [history |-> IF "history" \in DOMAIN data THEN data.history ELSE << >>,
   session_id |-> IF "session_id" \in DOMAIN data THEN data.session_id ELSE uuid,
   contador_interacciones |->
     IF "contador_interacciones" \in DOMAIN data
     THEN data.contador_interacciones ELSE 0,
   max_historial |->
     IF "max_historial" \in DOMAIN data THEN data.max_historial
     ELSE DefaultMaxHistorial,
   sistema_aprendizaje |-> aprendizaje,
   lenguaje_actual |-> None]

\* from_dict: data is a dict that may lack any of the five keys; uuid is the
\* value of the str(uuid.uuid4()) default of line 144, aprendizaje the dict
\* loaded by the SistemaAprendizaje that cls() constructs.
from_dict(data, uuid, aprendizaje) ==
  [history |-> IF "history" \in DOMAIN data THEN data.history ELSE << >>,
   session_id |-> IF "session_id" \in DOMAIN data THEN data.session_id ELSE uuid,
   contador_interacciones |->
     IF "contador_interacciones" \in DOMAIN data
     THEN data.contador_interacciones ELSE 0,
   max_historial |->
     IF "max_historial" \in DOMAIN data THEN data.max_historial
     ELSE DefaultMaxHistorial,
   sistema_aprendizaje |-> aprendizaje,
   lenguaje_actual |->
     IF "lenguaje_actual" \in DOMAIN data THEN data.lenguaje_actual ELSE None]

\* keyword.lower() of every table entry
keywords_lower ==
  [i \in 1..Len(lenguajes_keywords) |->
     [k \in 1..Len(lenguajes_keywords[i].keywords) |->
        lower(lenguajes_keywords[i].keywords[k])]]

\* detectar_lenguaje returning the last table entry that has a keyword inside
\* the message instead of the first
detectar_lenguaje_ultimo(user_message) ==
  LET user_message_lower == lower(user_message)
      Coincide(i) ==
        \E k \in 1..Len(lenguajes_keywords[i].keywords) :
          Contiene(keywords_lower[i][k], user_message_lower)
      aciertos == {i \in 1..Len(lenguajes_keywords) : Coincide(i)}
  IN IF aciertos = {} THEN General
     ELSE lenguajes_keywords[CHOOSE i \in aciertos : \A j \in aciertos : i >= j].lenguaje

\* detectar_lenguaje: first table entry with a keyword inside the lower-cased
\* message, else "General".
detectar_lenguaje(user_message) ==
  LET user_message_lower == lower(user_message)
      Coincide(i) ==
        \E k \in 1..Len(lenguajes_keywords[i].keywords) :
          Contiene(keywords_lower[i][k], user_message_lower)
      aciertos == {i \in 1..Len(lenguajes_keywords) : Coincide(i)}
  IN IF aciertos = {} THEN General
     ELSE lenguajes_keywords[CHOOSE i \in aciertos : \A j \in aciertos : i <= j].lenguaje

\* \w of the regular expression of line 168
EsPalabra(c) ==
  \/ \E i \in 1..Len(Mayusculas) : c = Mayusculas[i] \/ c = Minusculas[i]
  \/ c \in {"0","1","2","3","4","5","6","7","8","9","_"}

\* The backquote character (SANY accepts no backquote inside a string)
BT == "<bq>"

Cerca == << BT, BT, BT >>

\* A match of ```(?:\w+)?\n(.*?)``` (DOTALL) starting at i: the fence, the
\* longest run of word characters, a newline, then the shortest text up to
\* the next fence.  InicioBloque is the index of the first content character.
RECURSIVE FinPalabra(_, _)
FinPalabra(s, i) == IF i <= Len(s) /\ EsPalabra(s[i]) THEN FinPalabra(s, i + 1) ELSE i

EsCerca(s, i) == i >= 1 /\ i + 2 <= Len(s) /\ SubSeq(s, i, i + 2) = Cerca

InicioBloque(s, i) == FinPalabra(s, i + 3) + 1

HayBloque(s, i) ==
  /\ EsCerca(s, i)
  /\ FinPalabra(s, i + 3) <= Len(s)
  /\ s[FinPalabra(s, i + 3)] = "\n"
  /\ \E j \in InicioBloque(s, i)..Len(s) : EsCerca(s, j)

ContenidoBloque(s, i) ==
  LET c == InicioBloque(s, i)
      j == CHOOSE j \in c..Len(s) : EsCerca(s, j) /\ \A h \in c..(j - 1) : ~EsCerca(s, h)
  IN SubSeq(s, c, j - 1)

\* A match of `([^`]+)` starting at i
HayInline(s, i) ==
  /\ i + 2 <= Len(s)
  /\ s[i] = BT
  /\ s[i + 1] # BT
  /\ \E j \in (i + 2)..Len(s) : s[j] = BT

ContenidoInline(s, i) ==
  LET j == CHOOSE j \in (i + 2)..Len(s) : s[j] = BT /\ \A h \in (i + 1)..(j - 1) : s[h] # BT
  IN SubSeq(s, i + 1, j - 1)

\* str.split('\n') and '\n'.join
RECURSIVE split_lineas(_)
split_lineas(s) ==
  IF \E i \in 1..Len(s) : s[i] = "\n"
  THEN LET i == CHOOSE i \in 1..Len(s) : s[i] = "\n" /\ \A j \in 1..(i - 1) : s[j] # "\n"
       IN << SubSeq(s, 1, i - 1) >> \o split_lineas(SubSeq(s, i + 1, Len(s)))
  ELSE << s >>

RECURSIVE join_lineas(_)
join_lineas(ls) ==
  IF Len(ls) = 0 THEN << >>
  ELSE IF Len(ls) = 1 THEN ls[1]
  ELSE ls[1] \o << "\n" >> \o join_lineas(Tail(ls))

palabras_codigo ==
  << << "d","e","f"," " >>, << "f","u","n","c","t","i","o","n" >>, << "c","l","a","s","s"," " >>, << "i","m","p","o","r","t"," " >>, << "v","a","r"," " >>, << "l","e","t"," " >>, << "c","o","n","s","t"," " >>,
     << "i","f"," " >>, << "f","o","r"," " >>, << "w","h","i","l","e"," " >>, << "r","e","t","u","r","n"," " >>, << "p","r","i","n","t" >>, << "c","o","n","s","o","l","e",".","l","o","g" >> >>

EsLineaCodigo(linea) ==
  \E k \in 1..Len(palabras_codigo) : Contiene(palabras_codigo[k], linea)

extraer_codigo_usuario(user_message) ==
  LET bloques == {i \in 1..Len(user_message) : HayBloque(user_message, i)}
      inline == {i \in 1..Len(user_message) : HayInline(user_message, i)}
      lineas == split_lineas(user_message)
      lineas_codigo == SelectSeq(lineas, EsLineaCodigo)
  IN IF bloques # {}
     THEN strip(ContenidoBloque(user_message,
                                CHOOSE i \in bloques : \A j \in bloques : i <= j))
     ELSE IF inline # {}
     THEN ContenidoInline(user_message, CHOOSE i \in inline : \A j \in inline : i <= j)
     ELSE IF Len(lineas_codigo) > 0
     THEN join_lineas(lineas_codigo)
     ELSE user_message

\* analizar_codigo_estructura: the rule table for Python and JavaScript
analizar_codigo_estructura(codigo, lenguaje) ==
  LET Si(c, x) == IF c THEN << x >> ELSE << >>
      py_import == Contiene(<< "i","m","p","o","r","t"," " >>, codigo) /\ ~Contiene(<< "i","m","p","o","r","t"," ","o","s" >>, codigo)
                     /\ ~Contiene(<< "i","m","p","o","r","t"," ","s","y","s" >>, codigo)
      py_indent == Contiene(<< "d","e","f"," " >>, codigo) /\ Contiene(<< ":" >>, codigo)
                     /\ ~Contiene(<< " "," "," "," " >>, codigo) /\ ~Contiene(<< "\t" >>, codigo)
      py_print == Contiene(<< "p","r","i","n","t","(" >>, codigo) /\ ~Contiene(<< "f", "\"" >>, codigo)
                     /\ ~Contiene(<< "f","o","r","m","a","t","(" >>, codigo)
      js_function == Contiene(<< "f","u","n","c","t","i","o","n","(" >>, codigo) /\ ~Contiene(<< "=",">" >>, codigo)
      js_var == Contiene(<< "v","a","r"," " >>, codigo)
      js_log == Contiene(<< "c","o","n","s","o","l","e",".","l","o","g" >>, codigo) /\ ~Contiene(<< "/","/" >>, codigo)
  IN IF lenguaje = Python
     THEN [problemas |-> Si(py_indent, "Falta indentacion en funciones"),
           sugerencias |->
             Si(py_import, "Considera agregar imports estandar como os, sys")
             \o Si(py_indent, "Usa 4 espacios para indentacion en Python")
             \o Si(py_print, "Considera usar f-strings")]
     ELSE IF lenguaje = JavaScript
     THEN [problemas |-> Si(js_var, "Uso de 'var' en lugar de 'let' o 'const'"),
           sugerencias |->
             Si(js_function, "Considera usar arrow functions")
             \o Si(js_var, "Usa 'const' para valores constantes y 'let' para variables")
             \o Si(js_log, "Agrega comentarios para explicar los logs de debug")]
     ELSE [problemas |-> << >>, sugerencias |-> << >>]

\* obtener_mejores_practicas: curated lists for four languages, one generic
obtener_mejores_practicas(lenguaje) ==
  IF lenguaje = Python THEN "Usa type hints para mejor legibilidad ..."
  ELSE IF lenguaje = JavaScript THEN "Usa const/let en lugar de var ..."
  ELSE IF lenguaje = << "J","a","v","a" >> THEN "Sigue convenciones de nombrado Java ..."
  ELSE IF lenguaje = << "R","e","a","c","t" >> THEN "Usa functional components con hooks ..."
  ELSE "Escribe codigo limpio y legible ..."

RECURSIVE Vinetas(_)
Vinetas(items) ==
  IF Len(items) = 0 THEN << >>
  ELSE << "* ", Head(items), "\n" >> \o Vinetas(Tail(items))

\* generar_respuesta_estructurada: the template, fragment by fragment
generar_respuesta_estructurada(user_message, ai_response_raw, lenguaje) ==
  LET codigo_usuario == extraer_codigo_usuario(user_message)
      a == analizar_codigo_estructura(codigo_usuario, lenguaje)
      encabezado == << "**CYBERCODE AI - ASISTENTE " >> \o upper(lenguaje) \o << "**\n\n" >>
      analisis ==
        IF Len(codigo_usuario) > MinLargoCodigo
        THEN << "**ANALISIS DEL CODIGO**\n\n", BT, BT, BT >> \o lower(lenguaje) \o << "\n" >>
             \o codigo_usuario \o << "\n", BT, BT >>
             \o (IF Len(a.problemas) > 0
                 THEN << "**PROBLEMAS IDENTIFICADOS:**\n" >> \o Vinetas(a.problemas)
                      \o << "\n" >>
                 ELSE << >>)
             \o (IF Len(a.sugerencias) > 0
                 THEN << "**SUGERENCIAS INMEDIATAS:**\n" >> \o Vinetas(a.sugerencias)
                      \o << "\n" >>
                 ELSE << >>)
        ELSE << >>
      respuesta == << "**RESPUESTA ESPECIALIZADA**\n" >> \o ai_response_raw \o << "\n\n" >>
      practicas == << "**MEJORES PRACTICAS - " >> \o upper(lenguaje) \o << "**\n",
                      obtener_mejores_practicas(lenguaje), "\n\n" >>
      cierre == << "**Necesitas mas ayuda?** ..." >>
  IN encabezado \o analisis \o respuesta \o practicas \o cierre

\* engagement = min(10, len(user_message) / 10 + 2), in tenths
engagement_de(user_message) == Min(10 * Decimas, Len(user_message) + 2 * Decimas)

\* messages of lines 237-240, built from the object after add_message('user')
messages_de(self, user_message, lenguaje_detectado) ==
  LET ctx == get_conversation_context(self)
  IN << [role |-> "system", content |-> << "Eres CyberCode AI ... " >> \o
           (IF lenguaje_detectado # General THEN lenguaje_detectado
            ELSE << "multiples lenguajes" >>)] >>
     \o [i \in 1..Len(ctx) |->
           [role |-> IF ctx[i].role = "user" THEN "user" ELSE "assistant",
            content |-> ctx[i].content]]
     \o << [role |-> "user", content |-> user_message] >>

\* the loop of lines 243-256 without the break of line 253: every candidate
\* from i on is attempted, the last reply is kept
RECURSIVE probar_modelos_sin_break(_, _, _)
probar_modelos_sin_break(i, exitos, raw) ==
  IF i > NumModelos THEN [intentos |-> << >>, response |-> None]
  ELSE LET resto == probar_modelos_sin_break(i + 1, exitos, raw)
       IN [intentos |-> << modelos[i] >> \o resto.intentos,
           response |-> IF resto.response # None THEN resto.response
                        ELSE IF exitos[i] THEN raw ELSE None]

\* analyze_with_ai, lines 242-256: the loop over modelos from candidate i on.
\* exitos[i] tells whether client.chat.completions.create returns for
\* modelos[i] (raw is the text of the reply) or raises.  The result holds the
\* candidates attempted, in order, and response (None when all have failed).
RECURSIVE probar_modelos(_, _, _)
probar_modelos(i, exitos, raw) ==
  IF i > NumModelos THEN [intentos |-> << >>, response |-> None]
  ELSE IF exitos[i] THEN [intentos |-> << modelos[i] >>, response |-> raw]
  ELSE LET resto == probar_modelos(i + 1, exitos, raw)
       IN [intentos |-> << modelos[i] >> \o resto.intentos, response |-> resto.response]

\* the outcomes of the calls, by candidate: the candidates before k raise and
\* candidate k answers (k = NumModelos + 1: none answers); what a candidate
\* after the first answer would do is exitos[i] = TRUE
Exitos == {[i \in 1..NumModelos |-> i >= k] : k \in 1..(NumModelos + 1)}

\* ------------------------------------------------------------------ state
VARIABLES
  GROQ_AVAILABLE,    \* module flag set at start-up (lines 44-50)
  session,           \* per browser: the Flask session dict its cookie holds
  archivo,           \* the file datos/aprendizaje.json
  reloj,             \* the clock that datetime.now() reads
  uuids,             \* number of session identifiers handed out by uuid4()
  atendidas,         \* number of /chat requests with a non-empty message so far
  pc,                \* per request thread: position in chat()
  navegador,         \* per request: the browser that sent it
  cuerpo,            \* per request: data.get('message', '') as received
  user_message,      \* per request: user_message of chat(), stripped
  sesion_peticion,   \* per request: the session dict received with the request
  chat_assistant,    \* per request: chat_assistant of chat()
  cargado,           \* per request: respuestas_efectivas as loaded by from_dict
  result,            \* per request: the payload chat() returns
  intentos,          \* per request: the models attempted, in order
  evaluaciones,      \* per request: calls of evaluar_respuesta made
  \* history variables: what happened, recorded for the properties only
  exitos_api,        \* per request: outcome of the gateway call, by candidate
  lectura,           \* per request: cargar_aprendizaje read without exception
  guardado,          \* per request: outcome of guardar_aprendizaje
  messages,          \* per request: the messages handed to the gateway
  registradas,       \* keys recorded by the evaluar_respuesta calls so far
  perdida,           \* a response replaced a record written after it was read
  llamada            \* unit specifications: the call made, its arguments and outcome

vars == << GROQ_AVAILABLE, session, archivo, reloj, uuids, atendidas, pc, navegador,
           cuerpo, user_message, sesion_peticion, chat_assistant, cargado, result,
           intentos, evaluaciones, exitos_api, lectura, guardado, messages,
           registradas, perdida, llamada >>

globales == << GROQ_AVAILABLE, session, archivo, reloj, uuids, atendidas, registradas,
               perdida, llamada >>
locales == << pc, navegador, cuerpo, user_message, sesion_peticion, chat_assistant,
              cargado, result, intentos, evaluaciones, exitos_api, lectura, guardado, messages >>

SesionVacia == [k \in {} |-> 0]
TieneSesion(s) == "chat_session" \in DOMAIN s

\* uuid.uuid4(): identifiers are taken to be unique; the n-th identifier the
\* program keeps is the number n.  Identifiers that are generated and dropped
\* (by cls() and by the eager default inside from_dict) are not counted.
uuid4 == uuids + 1

SinAsistente == CodeChatAssistant(0, SinRespuestas)
SinResultado == [success |-> FALSE, error |-> "-"]
SinLlamada == [hecha |-> FALSE]

\* the error texts of lines 291, 233 and 258, without their accents
ErrorVacio == [success |-> FALSE, error |-> "El mensaje no puede estar vacio"]
ErrorSinGroq ==
  [success |-> FALSE,
   error |-> "Servicio AI no configurado. Por favor, configura GROQ_API_KEY en Render."]
ErrorModelos == [success |-> FALSE, error |-> "No se pudo conectar con ningun modelo AI"]

\* request bodies and model replies offered to the handlers
MsgVacio == << >>
MsgBlancos == << " ", "\n" >>
MsgDef == << " ","d","e","f"," ","f","\n" >>
Cuerpos == {MsgVacio, MsgBlancos, MsgDef}
Respuestas == {<< "o","k" >>}

EstadoInicialPeticiones ==
  /\ pc = [p \in Peticiones |-> "idle"]
  /\ navegador = [p \in Peticiones |-> "-"]
  /\ cuerpo = [p \in Peticiones |-> << >>]
  /\ user_message = [p \in Peticiones |-> << >>]
  /\ sesion_peticion = [p \in Peticiones |-> SesionVacia]
  /\ chat_assistant = [p \in Peticiones |-> SinAsistente]
  /\ cargado = [p \in Peticiones |-> SinRespuestas]
  /\ result = [p \in Peticiones |-> SinResultado]
  /\ intentos = [p \in Peticiones |-> << >>]
  /\ evaluaciones = [p \in Peticiones |-> 0]
  /\ exitos_api = [p \in Peticiones |-> << >>]
  /\ lectura = [p \in Peticiones |-> TRUE]
  /\ guardado = [p \in Peticiones |-> "-"]
  /\ messages = [p \in Peticiones |-> << >>]

Init ==
  /\ GROQ_AVAILABLE \in BOOLEAN
  /\ session = [b \in Navegadores |-> SesionVacia]
  /\ archivo = ArchivoAusente
  /\ reloj = 0
  /\ uuids = 0
  /\ atendidas = 0
  /\ registradas = {}
  /\ perdida = FALSE
  /\ llamada = SinLlamada
  /\ EstadoInicialPeticiones

\* ---------------------------------------------------------------- handlers
\* index(): GET /
Index(b) ==
  /\ uuids < MaxIds
  /\ session' = [session EXCEPT ![b] =
       IF TieneSesion(@) THEN @
       ELSE [chat_session |-> to_dict(CodeChatAssistant(uuid4, SinRespuestas))]]
  /\ uuids' = IF TieneSesion(session[b]) THEN uuids ELSE uuids + 1
  /\ UNCHANGED << GROQ_AVAILABLE, archivo, reloj, atendidas, registradas, perdida,
                  llamada, locales >>

\* new_chat, had line 308 kept the identifier of the conversation it replaces
NewChat_conserva_id(b) ==
  /\ uuids < MaxIds
  /\ session' = [session EXCEPT ![b] =
       [chat_session |-> to_dict(CodeChatAssistant(
          IF TieneSesion(@) THEN @.chat_session.session_id ELSE uuid4,
          SinRespuestas))]]
  /\ uuids' = uuids + 1
  /\ UNCHANGED << GROQ_AVAILABLE, archivo, reloj, atendidas, registradas, perdida,
                  llamada, locales >>

\* new_chat(): POST /new_chat
NewChat(b) ==
  /\ uuids < MaxIds
  /\ session' = [session EXCEPT ![b] =
       [chat_session |-> to_dict(CodeChatAssistant(uuid4, SinRespuestas))]]
  /\ uuids' = uuids + 1
  /\ UNCHANGED << GROQ_AVAILABLE, archivo, reloj, atendidas, registradas, perdida,
                  llamada, locales >>

\* chat(), lines 289-291: the body's message is empty once stripped
ChatVacio(p, b, mensaje) ==
  /\ pc[p] = "idle"
  /\ Len(strip(mensaje)) = 0
  /\ pc' = [pc EXCEPT ![p] = "responder"]
  /\ navegador' = [navegador EXCEPT ![p] = b]
  /\ cuerpo' = [cuerpo EXCEPT ![p] = mensaje]
  /\ result' = [result EXCEPT ![p] = ErrorVacio]
  /\ UNCHANGED << globales, user_message, sesion_peticion, chat_assistant, cargado,
                  intentos, evaluaciones, exitos_api, lectura, guardado, messages >>

\* chat(), line 289 with a non-empty message: the request arrives with the
\* session dict of the browser's cookie.
ChatRecibir(p, b, mensaje) ==
  /\ pc[p] = "idle"
  /\ Len(strip(mensaje)) > 0
  /\ atendidas < MaxChats
  /\ atendidas' = atendidas + 1
  /\ pc' = [pc EXCEPT ![p] = "cargar"]
  /\ navegador' = [navegador EXCEPT ![p] = b]
  /\ cuerpo' = [cuerpo EXCEPT ![p] = mensaje]
  /\ user_message' = [user_message EXCEPT ![p] = strip(mensaje)]
  /\ sesion_peticion' = [sesion_peticion EXCEPT ![p] = session[b]]
  /\ UNCHANGED << GROQ_AVAILABLE, session, archivo, reloj, uuids, registradas, perdida,
                  llamada, chat_assistant, cargado, result, intentos, evaluaciones,
                  exitos_api, lectura, guardado, messages >>

\* chat(), lines 292-295: create the session record if absent, from_dict
\* (whose cls() builds a SistemaAprendizaje, which loads the learning file),
\* add_message('user').  lectura_ok: open and json.load raise nothing; they
\* are only reached when the file exists (line 62).
ChatCargar(p, lectura_ok) ==
  /\ pc[p] = "cargar"
  /\ lectura_ok \/ archivo.existe
  /\ LET nueva == ~TieneSesion(sesion_peticion[p])
         data == IF nueva THEN to_dict(CodeChatAssistant(uuid4, SinRespuestas))
                 ELSE sesion_peticion[p].chat_session
         aprendizaje == cargar_aprendizaje(archivo, lectura_ok)
     IN /\ uuids' = IF nueva THEN uuids + 1 ELSE uuids
        /\ cargado' = [cargado EXCEPT ![p] = aprendizaje]
        /\ chat_assistant' = [chat_assistant EXCEPT ![p] =
             add_message(from_dict(data, uuid4, aprendizaje), "user", user_message[p])]
  /\ lectura' = [lectura EXCEPT ![p] =
       lectura_ok /\ (archivo.existe => archivo.legible)]
  /\ pc' = [pc EXCEPT ![p] = "analizar"]
  /\ UNCHANGED << GROQ_AVAILABLE, session, archivo, reloj, atendidas, registradas,
                  perdida, llamada, navegador, cuerpo, user_message, sesion_peticion,
                  result, intentos, evaluaciones, exitos_api, guardado, messages >>

\* AnalizarSinGroq, had detectar_lenguaje (lines 234-235) come before the
\* test of line 232: the language of the session is set before returning.
AnalizarSinGroq_con_lenguaje(p) ==
  /\ pc[p] = "analizar"
  /\ ~GROQ_AVAILABLE
  /\ chat_assistant' = [chat_assistant EXCEPT ![p] =
       [@ EXCEPT !.lenguaje_actual = detectar_lenguaje(user_message[p])]]
  /\ result' = [result EXCEPT ![p] = ErrorSinGroq]
  /\ pc' = [pc EXCEPT ![p] = "responder"]
  /\ UNCHANGED << globales, navegador, cuerpo, user_message, sesion_peticion,
                  cargado, intentos, evaluaciones, exitos_api,
                  lectura, guardado, messages >>

\* analyze_with_ai returning at line 233: the gateway is not configured
AnalizarSinGroq(p) ==
  /\ pc[p] = "analizar"
  /\ ~GROQ_AVAILABLE
  /\ result' = [result EXCEPT ![p] = ErrorSinGroq]
  /\ pc' = [pc EXCEPT ![p] = "responder"]
  /\ UNCHANGED << globales, navegador, cuerpo, user_message, sesion_peticion,
                  chat_assistant, cargado, intentos, evaluaciones, exitos_api,
                  lectura, guardado, messages >>

\* AnalizarFallo, had line 258 recorded the error in the conversation before
\* returning it (the code does not).
AnalizarFallo_con_mensaje(p) ==
  /\ pc[p] = "analizar"
  /\ GROQ_AVAILABLE
  /\ \E exitos \in Exitos, raw \in Respuestas :
       \E bucle \in {probar_modelos(1, exitos, raw)} :
         /\ bucle.response = None
         /\ intentos' = [intentos EXCEPT ![p] = bucle.intentos]
         /\ exitos_api' = [exitos_api EXCEPT ![p] = exitos]
  /\ messages' = [messages EXCEPT ![p] =
       messages_de(chat_assistant[p], user_message[p],
                   detectar_lenguaje(user_message[p]))]
  /\ chat_assistant' = [chat_assistant EXCEPT ![p] =
       add_message([@ EXCEPT !.lenguaje_actual = detectar_lenguaje(user_message[p])],
                   "assistant", << "error" >>)]
  /\ result' = [result EXCEPT ![p] = ErrorModelos]
  /\ pc' = [pc EXCEPT ![p] = "responder"]
  /\ UNCHANGED << globales, navegador, cuerpo, user_message, sesion_peticion, cargado,
                  evaluaciones, lectura, guardado >>

\* AnalizarFallo, had line 263 been reached before the test of line 257: the
\* failure is recorded for learning (the code returns first).
AnalizarFallo_con_registro(p) ==
  /\ pc[p] = "analizar"
  /\ GROQ_AVAILABLE
  /\ \E exitos \in Exitos, raw \in Respuestas :
       \E bucle \in {probar_modelos(1, exitos, raw)} :
         /\ bucle.response = None
         /\ intentos' = [intentos EXCEPT ![p] = bucle.intentos]
         /\ exitos_api' = [exitos_api EXCEPT ![p] = exitos]
  /\ messages' = [messages EXCEPT ![p] =
       messages_de(chat_assistant[p], user_message[p],
                   detectar_lenguaje(user_message[p]))]
  /\ chat_assistant' = [chat_assistant EXCEPT ![p] =
       [@ EXCEPT !.lenguaje_actual = detectar_lenguaje(user_message[p]),
                 !.sistema_aprendizaje =
                    evaluar_respuesta(@, detectar_lenguaje(user_message[p]),
                                      user_message[p], << "error" >>,
                                      engagement_de(user_message[p]), reloj)]]
  /\ evaluaciones' = [evaluaciones EXCEPT ![p] = @ + 1]
  /\ result' = [result EXCEPT ![p] = ErrorModelos]
  /\ pc' = [pc EXCEPT ![p] = "responder"]
  /\ UNCHANGED << globales, navegador, cuerpo, user_message, sesion_peticion, cargado,
                  lectura, guardado >>

\* analyze_with_ai returning at line 258: detectar_lenguaje, then every
\* candidate of modelos raises.
AnalizarFallo(p) ==
  /\ pc[p] = "analizar"
  /\ GROQ_AVAILABLE
  /\ \E exitos \in Exitos, raw \in Respuestas :
       \E bucle \in {probar_modelos(1, exitos, raw)} :
         /\ bucle.response = None
         /\ intentos' = [intentos EXCEPT ![p] = bucle.intentos]
         /\ exitos_api' = [exitos_api EXCEPT ![p] = exitos]
  /\ messages' = [messages EXCEPT ![p] =
       messages_de(chat_assistant[p], user_message[p],
                   detectar_lenguaje(user_message[p]))]
  /\ chat_assistant' = [chat_assistant EXCEPT ![p] =
       [@ EXCEPT !.lenguaje_actual = detectar_lenguaje(user_message[p])]]
  /\ result' = [result EXCEPT ![p] = ErrorModelos]
  /\ pc' = [pc EXCEPT ![p] = "responder"]
  /\ UNCHANGED << globales, navegador, cuerpo, user_message, sesion_peticion, cargado,
                  evaluaciones, lectura, guardado >>

\* analyze_with_ai returning at line 264: detectar_lenguaje, a candidate of
\* modelos answers, the reply is formatted, add_message('assistant'),
\* evaluar_respuesta with its guardar_aprendizaje, and the success payload.
\* exitos and raw are the outcomes of the gateway calls, resultado_guardar that
\* of the file write; datetime.now() returns reloj.
AnalizarExito(p) ==
  /\ pc[p] = "analizar"
  /\ GROQ_AVAILABLE
  /\ \E lenguaje_detectado \in {detectar_lenguaje(user_message[p])} :
       \E exitos \in Exitos, raw \in Respuestas :
         \E bucle \in {probar_modelos(1, exitos, raw)} :
           /\ bucle.response # None
           /\ intentos' = [intentos EXCEPT ![p] = bucle.intentos]
           /\ exitos_api' = [exitos_api EXCEPT ![p] = exitos]
           /\ messages' = [messages EXCEPT ![p] =
                messages_de(chat_assistant[p], user_message[p], lenguaje_detectado)]
           /\ \E ai_response_mejorada \in
                  {generar_respuesta_estructurada(user_message[p], bucle.response,
                                                  lenguaje_detectado)} :
                \E resultado_guardar \in ResultadosGuardar :
                  LET obj == add_message([chat_assistant[p] EXCEPT
                                            !.lenguaje_actual = lenguaje_detectado],
                                         "assistant", ai_response_mejorada)
                      engagement == engagement_de(user_message[p])
                      guarda == evaluar_guarda(lenguaje_detectado, ai_response_mejorada)
                      aprendizaje ==
                        evaluar_respuesta(obj.sistema_aprendizaje, lenguaje_detectado,
                                          user_message[p], ai_response_mejorada,
                                          engagement, reloj)
                  IN /\ chat_assistant' = [chat_assistant EXCEPT ![p] =
                          [obj EXCEPT !.sistema_aprendizaje = aprendizaje]]
                     /\ archivo' =
                          IF guarda
                          THEN guardar_aprendizaje(archivo, aprendizaje, resultado_guardar)
                          ELSE archivo
                     /\ guardado' = [guardado EXCEPT ![p] =
                          IF guarda THEN resultado_guardar ELSE "-"]
                     /\ registradas' =
                          IF guarda
                          THEN registradas \cup {<< lenguaje_detectado, ai_response_mejorada >>}
                          ELSE registradas
                     /\ result' = [result EXCEPT ![p] =
                          [success |-> TRUE,
                           response |-> ai_response_mejorada,
                           session_id |-> obj.session_id,
                           lenguaje |-> lenguaje_detectado,
                           history_length |-> Len(obj.history),
                           interacciones |-> obj.contador_interacciones]]
  /\ evaluaciones' = [evaluaciones EXCEPT ![p] = @ + 1]
  /\ pc' = [pc EXCEPT ![p] = "responder"]
  /\ UNCHANGED << GROQ_AVAILABLE, session, reloj, uuids, atendidas, perdida, llamada,
                  navegador, cuerpo, user_message, sesion_peticion, cargado, lectura >>

\* the request's locals are gone once chat() has returned
LiberarPeticion(p) ==
  /\ pc' = [pc EXCEPT ![p] = "idle"]
  /\ navegador' = [navegador EXCEPT ![p] = "-"]
  /\ cuerpo' = [cuerpo EXCEPT ![p] = << >>]
  /\ user_message' = [user_message EXCEPT ![p] = << >>]
  /\ sesion_peticion' = [sesion_peticion EXCEPT ![p] = SesionVacia]
  /\ chat_assistant' = [chat_assistant EXCEPT ![p] = SinAsistente]
  /\ cargado' = [cargado EXCEPT ![p] = SinRespuestas]
  /\ result' = [result EXCEPT ![p] = SinResultado]
  /\ intentos' = [intentos EXCEPT ![p] = << >>]
  /\ evaluaciones' = [evaluaciones EXCEPT ![p] = 0]
  /\ exitos_api' = [exitos_api EXCEPT ![p] = << >>]
  /\ lectura' = [lectura EXCEPT ![p] = TRUE]
  /\ guardado' = [guardado EXCEPT ![p] = "-"]
  /\ messages' = [messages EXCEPT ![p] = << >>]

\* the record the browser holds was written by another response since this
\* request read it (same conversation: the identifier is the one it read)
OtraEscribio(p) ==
  /\ TieneSesion(sesion_peticion[p])
  /\ TieneSesion(session[navegador[p]])
  /\ session[navegador[p]].chat_session.session_id =
       sesion_peticion[p].chat_session.session_id
  /\ session[navegador[p]] # sesion_peticion[p]

\* Responder, had the response kept a record that another response wrote
\* after this request read its own (the code overwrites it).
Responder_primero_gana(p) ==
  /\ pc[p] = "responder"
  /\ session' = IF result[p] = ErrorVacio \/ OtraEscribio(p) THEN session
                ELSE [session EXCEPT ![navegador[p]] =
                        [chat_session |-> to_dict(chat_assistant[p])]]
  /\ perdida' = perdida
  /\ LiberarPeticion(p)
  /\ UNCHANGED << GROQ_AVAILABLE, archivo, reloj, uuids, atendidas, registradas,
                  llamada >>

\* chat(), lines 297-300 (or the return of line 291): the response leaves;
\* unless the message was empty it carries the cookie with to_dict().
Responder(p) ==
  /\ pc[p] = "responder"
  /\ session' = IF result[p] = ErrorVacio THEN session
                ELSE [session EXCEPT ![navegador[p]] =
                        [chat_session |-> to_dict(chat_assistant[p])]]
  /\ perdida' = (perdida \/ (result[p] # ErrorVacio /\ OtraEscribio(p)))
  /\ LiberarPeticion(p)
  /\ UNCHANGED << GROQ_AVAILABLE, archivo, reloj, uuids, atendidas, registradas,
                  llamada >>

Next ==
  \/ \E b \in Navegadores : Index(b)
  \/ \E b \in Navegadores : NewChat(b)
  \/ \E p \in Peticiones, b \in Navegadores, mensaje \in Cuerpos : ChatVacio(p, b, mensaje)
  \/ \E p \in Peticiones, b \in Navegadores, mensaje \in Cuerpos : ChatRecibir(p, b, mensaje)
  \/ \E p \in Peticiones, lectura_ok \in BOOLEAN : ChatCargar(p, lectura_ok)
  \/ \E p \in Peticiones : AnalizarSinGroq(p)
  \/ \E p \in Peticiones : AnalizarFallo(p)
  \/ \E p \in Peticiones : AnalizarExito(p)
  \/ \E p \in Peticiones : Responder(p)

Spec == Init /\ [][Next]_vars

\* ------------------------------------------- properties of the handlers
\* the record from_dict receives in request p (lines 292-294): the one that
\* came with the request, or the one line 293 creates
DatosLeidos(p) ==
  IF TieneSesion(sesion_peticion[p]) THEN sesion_peticion[p].chat_session
  ELSE to_dict(CodeChatAssistant(chat_assistant[p].session_id, SinRespuestas))

\* the history entry that line 295 appends in request p
MensajeUsuario(p) ==
  [role |-> "user", content |-> user_message[p], code_snippet |-> None]

TodosFallan == [i \in 1..NumModelos |-> FALSE]
EsBlanco(s) == \A i \in 1..Len(s) : s[i] \in Espacios
Sale(p) == pc[p] = "responder" /\ pc'[p] = "idle"
ClaveDe(r) == << r.lenguaje, r.response >>
VecesEn(d, k) == IF k \in DOMAIN d THEN d[k].veces_usada ELSE 0

\* C2: when every candidate model fails for a non-empty message, chat returns
\* the failure payload of line 258; analyze_with_ai appends nothing to the
\* history and leaves the learning dict and the learning file as loaded; and
\* the session record the response stores has the history that was read plus
\* exactly the user's message.
C2_todos_fallan ==
  [][\A p \in Peticiones :
       /\ (pc[p] = "analizar" /\ exitos_api'[p] = TodosFallan) =>
            /\ result'[p] = ErrorModelos
            /\ ~result'[p].success
            /\ chat_assistant'[p].history = chat_assistant[p].history
            /\ chat_assistant'[p].sistema_aprendizaje = cargado[p]
            /\ evaluaciones'[p] = 0
            /\ archivo' = archivo
            /\ registradas' = registradas
       /\ (Sale(p) /\ exitos_api[p] = TodosFallan) =>
            /\ session'[navegador[p]].chat_session.history =
                 Append(DatosLeidos(p).history, MensajeUsuario(p))
            /\ archivo' = archivo
    ]_vars

\* a request whose candidates all failed is about to answer, in a
\* conversation that already had messages
C2_testigo ==
  \E p \in Peticiones :
    /\ pc[p] = "responder"
    /\ exitos_api[p] = TodosFallan
    /\ result[p] = ErrorModelos
    /\ Len(DatosLeidos(p).history) >= 1
    /\ Len(chat_assistant[p].history) = Len(DatosLeidos(p).history) + 1

\* C3: a /chat request whose message is empty or only whitespace gets the
\* failure payload of line 291 without building an assistant or attempting a
\* model, and neither its arrival nor its response changes the stored session
\* record, the learning file, or what has been recorded for learning.
C3_mensaje_vacio ==
  [][\A p \in Peticiones :
       /\ (pc'[p] # "idle" /\ EsBlanco(cuerpo'[p])) =>
            /\ pc'[p] = "responder"
            /\ result'[p] = ErrorVacio
            /\ ~result'[p].success
            /\ chat_assistant'[p] = SinAsistente
            /\ intentos'[p] = << >>
            /\ evaluaciones'[p] = 0
       /\ (/\ pc'[p] # pc[p]
           /\ \/ (pc[p] # "idle" /\ EsBlanco(cuerpo[p]))
              \/ (pc'[p] # "idle" /\ EsBlanco(cuerpo'[p]))) =>
            UNCHANGED << session, archivo, registradas, uuids >>
    ]_vars

\* a whitespace-only request is being answered while the browser holds a
\* conversation with messages
C3_testigo ==
  \E p \in Peticiones :
    /\ pc[p] = "responder"
    /\ cuerpo[p] = MsgBlancos
    /\ result[p] = ErrorVacio
    /\ TieneSesion(session[navegador[p]])
    /\ Len(session[navegador[p]].chat_session.history) >= 1

\* index of the first candidate that answers, 0 when none does
PrimerExito(e) ==
  IF \E i \in 1..NumModelos : e[i]
  THEN CHOOSE i \in 1..NumModelos : e[i] /\ \A j \in 1..(i - 1) : ~e[j]
  ELSE 0

\* C4: the candidates attempted in a request are the models of the list in
\* list order, each once, up to and including the first that answers; the
\* reply used is that answer; the failure payload is returned exactly when
\* all of them were attempted and none answered.
C4_orden_modelos ==
  \A p \in Peticiones :
    exitos_api[p] # << >> =>
      LET k == PrimerExito(exitos_api[p])
      IN /\ intentos[p] = SubSeq(modelos, 1, IF k = 0 THEN NumModelos ELSE k)
         /\ (k = 0) <=> (result[p] = ErrorModelos)
         /\ (k # 0) =>
              /\ result[p].success
              /\ \E raw \in Respuestas : Contiene(raw, result[p].response)

\* the first candidate failed, the second answered, the third was not tried
C4_testigo ==
  \E p \in Peticiones :
    /\ pc[p] = "responder"
    /\ exitos_api[p] = << FALSE, TRUE, TRUE >>
    /\ intentos[p] = << modelos[1], modelos[2] >>
    /\ result[p].success

\* C5: when two requests of different sessions have both recorded a learning
\* update and both saved it without error, the learning file reflects both:
\* it holds each one's entry, and an entry both recorded has been used twice
\* more than in the older of the two loads.
C5_sin_actualizacion_perdida ==
  \A p, q \in Peticiones :
    (/\ p # q
     /\ pc[p] = "responder" /\ pc[q] = "responder"
     /\ guardado[p] = "ok" /\ guardado[q] = "ok"
     /\ lectura[p] /\ lectura[q]
     /\ chat_assistant[p].session_id # chat_assistant[q].session_id) =>
       /\ archivo.existe /\ archivo.legible
       /\ \A r \in {p, q} :
            LET k == ClaveDe(result[r])
                antes == Min(VecesEn(cargado[p], k), VecesEn(cargado[q], k))
                usos == IF ClaveDe(result[p]) = ClaveDe(result[q]) THEN 2 ELSE 1
            IN VecesEn(archivo.datos, k) >= antes + usos

\* C6: the record a response stores is the one its own request read plus the
\* messages that request appended, whatever the browser holds at that moment:
\* a record another response stored in between is replaced, not merged.
C6_ultimo_escritor ==
  [][\A p \in Peticiones :
       (Sale(p) /\ result[p] # ErrorVacio) =>
         LET leido == DatosLeidos(p)
             escrito == session'[navegador[p]].chat_session
             propios == IF result[p].success THEN 2 ELSE 1
         IN /\ escrito = to_dict(chat_assistant[p])
            /\ escrito.session_id = leido.session_id
            /\ Len(escrito.history) = Len(leido.history) + propios
            /\ SubSeq(escrito.history, 1, Len(leido.history)) = leido.history
            /\ escrito.contador_interacciones = leido.contador_interacciones + propios
    ]_vars

\* both requests of a conversation have answered, each appended a message,
\* and the stored record counts only one: the other's is gone
C6_testigo ==
  /\ perdida
  /\ atendidas = 2
  /\ \A p \in Peticiones : pc[p] = "idle"
  /\ \E b \in Navegadores :
       /\ TieneSesion(session[b])
       /\ Len(session[b].chat_session.history) = 1
       /\ session[b].chat_session.contador_interacciones = 1

\* C9 as stated: the stored counter of a conversation never decreases, and
\* every response stores the counter it read plus one per message appended.
C9_contador_monotono ==
  [][/\ \A b \in Navegadores :
          (/\ TieneSesion(session[b]) /\ TieneSesion(session'[b])
           /\ session'[b].chat_session.session_id = session[b].chat_session.session_id) =>
             session'[b].chat_session.contador_interacciones >=
               session[b].chat_session.contador_interacciones
     /\ \A p \in Peticiones :
          (Sale(p) /\ result[p] # ErrorVacio) =>
            session'[navegador[p]].chat_session.contador_interacciones =
              DatosLeidos(p).contador_interacciones
                + (IF result[p].success THEN 2 ELSE 1)
    ]_vars

\* C9, amended: every response to a non-empty message stores the counter its
\* request read plus one per message the request appended, 2 after a
\* successful exchange and 1 after a failed one; and the stored counter grows
\* whenever the browser still holds the record the request read.
C9_contador_por_mensaje ==
  [][\A p \in Peticiones :
       (Sale(p) /\ result[p] # ErrorVacio) =>
         LET leido == DatosLeidos(p)
             escrito == session'[navegador[p]].chat_session
             anexados == Len(escrito.history) - Len(leido.history)
         IN /\ anexados = (IF result[p].success THEN 2 ELSE 1)
            /\ escrito.contador_interacciones = leido.contador_interacciones + anexados
            /\ (session[navegador[p]] = sesion_peticion[p] /\ TieneSesion(sesion_peticion[p])) =>
                 escrito.contador_interacciones >
                   session[navegador[p]].chat_session.contador_interacciones
    ]_vars

\* a failed request and then a successful exchange have been stored in one
\* conversation: the counter is 1 + 2
C9_testigo ==
  /\ ~perdida
  /\ \A p \in Peticiones : pc[p] = "idle"
  /\ \E b \in Navegadores :
       /\ TieneSesion(session[b])
       /\ Len(session[b].chat_session.history) = 3
       /\ session[b].chat_session.contador_interacciones = 3

\* C10: a save that fails is swallowed (the request still gets the success
\* payload and its learning dict holds the update), and every update recorded
\* so far is in the learning dict of any request that loads without error
\* afterwards.
C10_fallo_al_guardar ==
  [][\A p \in Peticiones :
       /\ (pc[p] = "analizar" /\ guardado'[p] \in {"sin_abrir", "truncado"}) =>
            /\ pc'[p] = "responder"
            /\ result'[p].success
            /\ ClaveDe(result'[p]) \in DOMAIN chat_assistant'[p].sistema_aprendizaje
       /\ (pc[p] = "cargar" /\ pc'[p] = "analizar" /\ lectura'[p]) =>
            registradas \subseteq DOMAIN cargado'[p]
    ]_vars

\* ------------------------------------------ CodeChatAssistant on its own
\* One object (held by request slot Original) receives add_message calls and
\* is written with to_dict into the browser's session; from_dict builds a
\* second object (slot Reconstruido) from whatever record the session holds.
Original == "p1"
Reconstruido == "p2"

MsgUsuario == << "m" >>
MsgAsistente == << "r" >>

\* the object after n add_message calls of a conversation: user and assistant
\* take turns, and analyze_with_ai has set lenguaje_actual by then
RECURSIVE Conversacion(_)
Conversacion(n) ==
  IF n = 0 THEN CodeChatAssistant(1, SinRespuestas)
  ELSE [add_message(Conversacion(n - 1),
                    IF n % 2 = 1 THEN "user" ELSE "assistant",
                    IF n % 2 = 1 THEN MsgUsuario ELSE MsgAsistente)
          EXCEPT !.lenguaje_actual = Python]

\* history lengths the object starts with: empty, and one exchange short of
\* max_historial
LargosIniciales == {0, DefaultMaxHistorial - 2, DefaultMaxHistorial - 1}

\* the session records from_dict may find: any subset of the five keys of
\* to_dict
Campos == {"history", "session_id", "contador_interacciones", "max_historial",
           "lenguaje_actual"}
RegistroCompleto == to_dict(Conversacion(2))
RegistrosParciales == {[f \in D |-> RegistroCompleto[f]] : D \in SUBSET Campos}

InitSesion ==
  /\ GROQ_AVAILABLE = TRUE
  /\ session \in {[b \in Navegadores |-> [chat_session |-> r]] : r \in RegistrosParciales}
  /\ archivo = ArchivoAusente
  /\ reloj = 0
  /\ uuids = 1
  /\ atendidas = 0
  /\ registradas = {}
  /\ perdida = FALSE
  /\ llamada = SinLlamada
  /\ pc = [p \in Peticiones |-> IF p = Original THEN "objeto" ELSE "idle"]
  /\ chat_assistant \in
       {[p \in Peticiones |-> IF p = Original THEN Conversacion(n) ELSE SinAsistente] :
          n \in LargosIniciales}
  /\ navegador = [p \in Peticiones |-> "-"]
  /\ cuerpo = [p \in Peticiones |-> << >>]
  /\ user_message = [p \in Peticiones |-> << >>]
  /\ sesion_peticion = [p \in Peticiones |-> SesionVacia]
  /\ cargado = [p \in Peticiones |-> SinRespuestas]
  /\ result = [p \in Peticiones |-> SinResultado]
  /\ intentos = [p \in Peticiones |-> << >>]
  /\ evaluaciones = [p \in Peticiones |-> 0]
  /\ exitos_api = [p \in Peticiones |-> << >>]
  /\ lectura = [p \in Peticiones |-> TRUE]
  /\ guardado = [p \in Peticiones |-> "-"]
  /\ messages = [p \in Peticiones |-> << >>]

\* chat_assistant.add_message(role, content); atendidas counts the calls
SesAddMessage(role, content) ==
  /\ pc[Original] \in {"objeto", "serializado"}
  /\ atendidas < MaxAppends
  /\ atendidas' = atendidas + 1
  /\ chat_assistant' = [chat_assistant EXCEPT ![Original] = add_message(@, role, content)]
  /\ pc' = [pc EXCEPT ![Original] = "objeto"]
  /\ messages' = [messages EXCEPT ![Original] = << >>]
  /\ UNCHANGED << GROQ_AVAILABLE, session, archivo, reloj, uuids, registradas, perdida,
                  llamada, navegador, cuerpo, user_message, sesion_peticion, cargado,
                  result, intentos, evaluaciones, exitos_api, lectura, guardado >>

\* session['chat_session'] = chat_assistant.to_dict()
SesToDict(b) ==
  /\ pc[Original] = "objeto"
  /\ session' = [session EXCEPT ![b] = [chat_session |-> to_dict(chat_assistant[Original])]]
  /\ pc' = [pc EXCEPT ![Original] = "serializado", ![Reconstruido] = "idle"]
  /\ chat_assistant' = [chat_assistant EXCEPT ![Reconstruido] = SinAsistente]
  /\ UNCHANGED << GROQ_AVAILABLE, archivo, reloj, uuids, atendidas, registradas, perdida,
                  llamada, navegador, cuerpo, user_message, sesion_peticion, cargado,
                  result, intentos, evaluaciones, exitos_api, lectura, guardado, messages >>

\* CodeChatAssistant.from_dict(session['chat_session'])
SesFromDict(b) ==
  /\ pc[Reconstruido] = "idle"
  /\ chat_assistant' = [chat_assistant EXCEPT ![Reconstruido] =
       from_dict(session[b].chat_session, uuid4, cargar_aprendizaje(archivo, TRUE))]
  /\ uuids' = IF "session_id" \in DOMAIN session[b].chat_session THEN uuids
              ELSE uuids + 1
  /\ pc' = [pc EXCEPT ![Reconstruido] = "reconstruido"]
  /\ UNCHANGED << GROQ_AVAILABLE, session, archivo, reloj, atendidas, registradas,
                  perdida, llamada, navegador, cuerpo, user_message, sesion_peticion,
                  cargado, result, intentos, evaluaciones, exitos_api, lectura,
                  guardado, messages >>

\* analyze_with_ai, lines 234-240, on the object as it is: the messages for
\* the gateway, built from get_conversation_context
SesMensajes(mensaje) ==
  /\ pc[Original] \in {"objeto", "serializado"}
  /\ messages[Original] = << >>
  /\ messages' = [messages EXCEPT ![Original] =
       messages_de(chat_assistant[Original], mensaje, detectar_lenguaje(mensaje))]
  /\ UNCHANGED << GROQ_AVAILABLE, session, archivo, reloj, uuids, atendidas,
                  registradas, perdida, llamada, pc, navegador, cuerpo, user_message,
                  sesion_peticion, chat_assistant, cargado, result, intentos,
                  evaluaciones, exitos_api, lectura, guardado >>

NextSesion ==
  \/ \E role \in {"user", "assistant"}, content \in {MsgUsuario, MsgAsistente} :
       SesAddMessage(role, content)
  \/ \E mensaje \in {MsgUsuario} : SesMensajes(mensaje)
  \/ \E b \in Navegadores : SesToDict(b)
  \/ \E b \in Navegadores : SesFromDict(b)

SpecSesion == InitSesion /\ [][NextSesion]_vars

\* C1: after any sequence of add_message calls the history holds at most
\* max_historial entries.
C1_historial_acotado ==
  \A p \in Peticiones :
    Len(chat_assistant[p].history) <= chat_assistant[p].max_historial

\* the record from_dict yields for a dict without any key, given the
\* identifier it generates
RegistroPorDefecto(id) ==
  [history |-> << >>, session_id |-> id, contador_interacciones |-> 0,
   max_historial |-> 20, lenguaje_actual |-> None]

\* C7: the object from_dict builds has, for each of the five fields, the
\* value of the record it was built from, or the default where the record
\* lacks the field (empty history, an identifier no object has, counter 0,
\* max_historial 20, no language); built from to_dict(s) it has the five
\* fields of s.
C7_ida_y_vuelta ==
  pc[Reconstruido] = "reconstruido" =>
    \A b \in Navegadores :
      LET d == session[b].chat_session
          o == chat_assistant[Reconstruido]
          s == chat_assistant[Original]
      IN /\ to_dict(o) = [f \in Campos |->
                            IF f \in DOMAIN d THEN d[f] ELSE RegistroPorDefecto(uuids)[f]]
         /\ ("session_id" \notin DOMAIN d) => o.session_id # s.session_id
         /\ (pc[Original] = "serializado") =>
              /\ o.history = s.history
              /\ o.session_id = s.session_id
              /\ o.contador_interacciones = s.contador_interacciones
              /\ o.max_historial = s.max_historial
              /\ o.lenguaje_actual = s.lenguaje_actual

\* an object with messages and a language was written with to_dict and
\* rebuilt with from_dict
C7_testigo ==
  /\ pc[Original] = "serializado"
  /\ pc[Reconstruido] = "reconstruido"
  /\ Len(chat_assistant[Original].history) >= 1
  /\ chat_assistant[Original].lenguaje_actual = Python
  /\ chat_assistant[Reconstruido].history = chat_assistant[Original].history

\* ------------------------------------------ SistemaAprendizaje on its own
\* One SistemaAprendizaje instance (that of the object in slot Original)
\* receives evaluar_respuesta calls with arbitrary arguments; the clock
\* advances; a new instance is constructed from the file.
Lenguajes == {Python, << " " >>}
RespuestasBot == {<< "o","k" >>, << >>}
\* engagement values, in tenths: -1, 0, 0.5, 1, 3.7, 10, 10.1 and 50
Engagements == {0 - Decimas, 0, 5, Decimas, 37, 10 * Decimas, 10 * Decimas + 1,
                50 * Decimas}

InitAprendizaje ==
  /\ GROQ_AVAILABLE = TRUE
  /\ session = [b \in Navegadores |-> SesionVacia]
  /\ archivo = ArchivoAusente
  /\ reloj = 0
  /\ uuids = 1
  /\ atendidas = 0
  /\ registradas = {}
  /\ perdida = FALSE
  /\ llamada = SinLlamada
  /\ pc = [p \in Peticiones |-> IF p = Original THEN "instancia" ELSE "idle"]
  /\ chat_assistant =
       [p \in Peticiones |->
          IF p = Original THEN CodeChatAssistant(1, SinRespuestas) ELSE SinAsistente]
  /\ navegador = [p \in Peticiones |-> "-"]
  /\ cuerpo = [p \in Peticiones |-> << >>]
  /\ user_message = [p \in Peticiones |-> << >>]
  /\ sesion_peticion = [p \in Peticiones |-> SesionVacia]
  /\ cargado = [p \in Peticiones |-> SinRespuestas]
  /\ result = [p \in Peticiones |-> SinResultado]
  /\ intentos = [p \in Peticiones |-> << >>]
  /\ evaluaciones = [p \in Peticiones |-> 0]
  /\ exitos_api = [p \in Peticiones |-> << >>]
  /\ lectura = [p \in Peticiones |-> TRUE]
  /\ guardado = [p \in Peticiones |-> "-"]
  /\ messages = [p \in Peticiones |-> << >>]

\* sistema_aprendizaje.evaluar_respuesta(lenguaje, '', respuesta_bot,
\* engagement), with the guardar_aprendizaje of line 98
AprEvaluar(lenguaje, respuesta_bot, engagement, resultado_guardar) ==
  /\ evaluaciones[Original] < MaxEvaluaciones
  /\ evaluar_guarda(lenguaje, respuesta_bot) \/ resultado_guardar = "ok"
  /\ LET antes == chat_assistant[Original].sistema_aprendizaje
         despues == evaluar_respuesta(antes, lenguaje, << >>, respuesta_bot,
                                      engagement, reloj)
     IN /\ chat_assistant' = [chat_assistant EXCEPT
                                ![Original].sistema_aprendizaje = despues]
        /\ archivo' = IF evaluar_guarda(lenguaje, respuesta_bot)
                      THEN guardar_aprendizaje(archivo, despues, resultado_guardar)
                      ELSE archivo
        /\ llamada' = [hecha |-> TRUE, lenguaje |-> lenguaje,
                       respuesta_bot |-> respuesta_bot, engagement |-> engagement,
                       antes |-> antes]
  /\ evaluaciones' = [evaluaciones EXCEPT ![Original] = @ + 1]
  /\ UNCHANGED << GROQ_AVAILABLE, session, reloj, uuids, atendidas, registradas,
                  perdida, pc, navegador, cuerpo, user_message, sesion_peticion,
                  cargado, result, intentos, exitos_api, lectura, guardado, messages >>

\* time passes between two calls
AprTick ==
  /\ reloj < MaxReloj
  /\ reloj' = reloj + 1
  /\ UNCHANGED << GROQ_AVAILABLE, session, archivo, uuids, atendidas, registradas,
                  perdida, llamada, locales >>

\* SistemaAprendizaje(): a new instance loads the file
AprCargar(lectura_ok) ==
  /\ lectura_ok \/ archivo.existe
  /\ chat_assistant' = [chat_assistant EXCEPT ![Original].sistema_aprendizaje =
                          cargar_aprendizaje(archivo, lectura_ok)]
  /\ llamada' = SinLlamada
  /\ UNCHANGED << GROQ_AVAILABLE, session, archivo, reloj, uuids, atendidas,
                  registradas, perdida, pc, navegador, cuerpo, user_message,
                  sesion_peticion, cargado, result, intentos, evaluaciones,
                  exitos_api, lectura, guardado, messages >>

NextAprendizaje ==
  \/ \E lenguaje \in Lenguajes, respuesta_bot \in RespuestasBot,
        engagement \in Engagements, resultado_guardar \in ResultadosGuardar :
       AprEvaluar(lenguaje, respuesta_bot, engagement, resultado_guardar)
  \/ AprTick
  \/ \E lectura_ok \in BOOLEAN : AprCargar(lectura_ok)

SpecAprendizaje == InitAprendizaje /\ [][NextAprendizaje]_vars

\* C8: a call of evaluar_respuesta that passes the checks of lines 82-85 adds
\* to efectividad_total the engagement limited to [1, 10] (1 for engagement
\* 0, 10 for engagement 50) and adds exactly 1 to veces_usada; a call that
\* does not pass them changes nothing.
C8_efectividad_acotada ==
  llamada.hecha =>
    LET d == chat_assistant[Original].sistema_aprendizaje
        antes == llamada.antes
        k == << llamada.lenguaje, llamada.respuesta_bot >>
        e == llamada.engagement
        total_antes == IF k \in DOMAIN antes THEN antes[k].efectividad_total ELSE 0
    IN IF EsBlanco(llamada.lenguaje) \/ EsBlanco(llamada.respuesta_bot)
       THEN d = antes
       ELSE LET suma == d[k].efectividad_total - total_antes
            IN /\ suma = (IF e < Decimas THEN Decimas
                          ELSE IF e > 10 * Decimas THEN 10 * Decimas ELSE e)
               /\ Decimas <= suma /\ suma <= 10 * Decimas
               /\ (e = 0) => (suma = Decimas)
               /\ (e = 50 * Decimas) => (suma = 10 * Decimas)
               /\ d[k].veces_usada = VecesEn(antes, k) + 1

\* an entry that was already there has just been used with engagement 50,
\* and one with engagement 0 before
C8_testigo ==
  /\ llamada.hecha
  /\ llamada.engagement = 50 * Decimas
  /\ << llamada.lenguaje, llamada.respuesta_bot >> \in DOMAIN llamada.antes
  /\ llamada.antes[<< llamada.lenguaje, llamada.respuesta_bot >>].efectividad_total
       = Decimas

\* ---------------------------------- properties of the handlers, continued
\* C11: the list handed to the gateway is one system message, then the
\* context, then the current user message; after the system message no two
\* consecutive messages have the same role, and the context is that of the
\* record the request read, without the message of the request itself.
C11_lista_de_mensajes ==
  \A p \in Peticiones :
    messages[p] # << >> =>
      LET ms == messages[p]
          n == Len(ms)
          leido == DatosLeidos(p)
      IN /\ n >= 2
         /\ ms[1].role = "system"
         /\ \A i \in 2..n : ms[i].role \in {"user", "assistant"}
         /\ ms[n] = [role |-> "user", content |-> user_message[p]]
         /\ \A i \in 2..(n - 1) : ms[i].role # ms[i + 1].role
         /\ n - 2 = Min(Len(leido.history), leido.max_historial)

\* ------------------------- properties of CodeChatAssistant, continued
\* C12: the context between the system message and the final message of
\* the list built for the gateway is the last max_historial entries of the
\* history, or all of them when there are fewer, in the order of the
\* history; it never has more than max_historial entries.
C12_ventana_de_contexto ==
  messages[Original] # << >> =>
    LET h == chat_assistant[Original].history
        w == chat_assistant[Original].max_historial
        ms == messages[Original]
        c == Len(ms) - 2
    IN /\ c = (IF Len(h) <= w THEN Len(h) ELSE w)
       /\ c <= w
       /\ \A i \in 1..c :
            /\ ms[1 + i].content = h[Len(h) - c + i].content
            /\ ms[1 + i].role = h[Len(h) - c + i].role
       /\ Len(get_conversation_context(chat_assistant[Original])) = c

\* the messages were built for an object whose history is longer than
\* max_historial
C12_testigo ==
  /\ messages[Original] # << >>
  /\ Len(chat_assistant[Original].history) > chat_assistant[Original].max_historial
  /\ Len(messages[Original]) = chat_assistant[Original].max_historial + 2

\* ---------------------------------- properties of the handlers, continued
\* new_chat, lines 311-315: the payload returned, read from the session
\* that line 308 has just stored
respuesta_new_chat(sesion) ==
  [success |-> TRUE, message |-> "Nueva conversacion iniciada",
   session_id |-> sesion.chat_session.session_id]

\* the session identifiers present: in the browsers' records and in the
\* objects of the requests in progress
IdsPresentes ==
  {session[b].chat_session.session_id : b \in {x \in Navegadores : TieneSesion(session[x])}}
    \cup {chat_assistant[p].session_id : p \in {x \in Peticiones : pc[x] \in {"analizar", "responder"}}}

\* C13: whenever the stored session is replaced outside a /chat response
\* (by /new_chat, from whatever record the browser held, with or without
\* requests in progress), the new record has an empty history, counter 0, no
\* language and an identifier that no record or request had before, and the
\* payload returned carries that identifier.
C13_nuevo_chat ==
  [][\A b \in Navegadores :
       (session'[b] # session[b] /\ pc' = pc) =>
         LET nuevo == session'[b].chat_session
         IN /\ nuevo.history = << >>
            /\ nuevo.contador_interacciones = 0
            /\ nuevo.lenguaje_actual = None
            /\ nuevo.max_historial = 20
            /\ nuevo.session_id \notin IdsPresentes
            /\ respuesta_new_chat(session'[b]).session_id = nuevo.session_id
            /\ respuesta_new_chat(session'[b]).success
    ]_vars

\* /new_chat has replaced a conversation that had messages
C13_testigo ==
  /\ atendidas >= 1
  /\ \A p \in Peticiones : pc[p] = "idle"
  /\ \E b \in Navegadores :
       /\ TieneSesion(session[b])
       /\ session[b].chat_session.history = << >>
       /\ session[b].chat_session.session_id = 2

\* --------------------------------- the text functions on their own
\* A message is drawn at the start (user_message of slot Original) and the
\* function is applied to it.
\* the concatenations of at most n fragments of F
RECURSIVE Mensajes(_, _)
Mensajes(F, n) ==
  IF n = 0 THEN {<< >>}
  ELSE LET menos == Mensajes(F, n - 1)
       IN menos \cup {m \o f : m \in menos, f \in F}

InitTexto(M) ==
  /\ GROQ_AVAILABLE = TRUE
  /\ session = [b \in Navegadores |-> SesionVacia]
  /\ archivo = ArchivoAusente
  /\ reloj = 0
  /\ uuids = 1
  /\ atendidas = 0
  /\ registradas = {}
  /\ perdida = FALSE
  /\ llamada = SinLlamada
  /\ pc = [p \in Peticiones |-> IF p = Original THEN "mensaje" ELSE "idle"]
  /\ chat_assistant =
       [p \in Peticiones |->
          IF p = Original THEN CodeChatAssistant(1, SinRespuestas) ELSE SinAsistente]
  /\ user_message \in {[p \in Peticiones |-> IF p = Original THEN m ELSE << >>] : m \in M}
  /\ navegador = [p \in Peticiones |-> "-"]
  /\ cuerpo = [p \in Peticiones |-> << >>]
  /\ sesion_peticion = [p \in Peticiones |-> SesionVacia]
  /\ cargado = [p \in Peticiones |-> SinRespuestas]
  /\ result = [p \in Peticiones |-> SinResultado]
  /\ intentos = [p \in Peticiones |-> << >>]
  /\ evaluaciones = [p \in Peticiones |-> 0]
  /\ exitos_api = [p \in Peticiones |-> << >>]
  /\ lectura = [p \in Peticiones |-> TRUE]
  /\ guardado = [p \in Peticiones |-> "-"]
  /\ messages = [p \in Peticiones |-> << >>]

\* fragments with keywords of several table entries, in both cases
FragmentosDetectar ==
  { << "d","e","f"," " >>, << "D","E","F"," " >>,
    << "c","o","n","s","o","l","e",".","l","o","g" >>,
    << "S","e","l","e","c","t" >>, << "t","s" >>, << "j","s" >>,
    << "x" >>, << " " >> }

InitDetectar == InitTexto(Mensajes(FragmentosDetectar, MaxFragmentos))

\* lines 234-235: self.lenguaje_actual = self.detectar_lenguaje(user_message)
TxtDetectar ==
  /\ pc[Original] = "mensaje"
  /\ chat_assistant' = [chat_assistant EXCEPT ![Original].lenguaje_actual =
                          detectar_lenguaje(user_message[Original])]
  /\ pc' = [pc EXCEPT ![Original] = "detectado"]
  /\ UNCHANGED << GROQ_AVAILABLE, session, archivo, reloj, uuids, atendidas,
                  registradas, perdida, llamada, navegador, cuerpo, user_message,
                  sesion_peticion, cargado, result, intentos, evaluaciones,
                  exitos_api, lectura, guardado, messages >>

NextDetectar == TxtDetectar

SpecDetectar == InitDetectar /\ [][NextDetectar]_vars

\* k occurs in s when the case of letters is ignored
ContieneSinCaso(k, s) ==
  \E i \in 1..(Len(s) - Len(k) + 1) :
    \A j \in 1..Len(k) : lower_char(s[i + j - 1]) = lower_char(k[j])

\* table entry i has a keyword occurring in s
TieneKeyword(i, s) ==
  \E k \in 1..Len(lenguajes_keywords[i].keywords) :
    ContieneSinCaso(lenguajes_keywords[i].keywords[k], s)

\* C14: detectar_lenguaje returns the language of the first table entry, in
\* the order of the table, that has a keyword occurring in the message with
\* case ignored, and "General" when no entry has one; a message with "def "
\* and "console.log" gives Python.
C14_primer_lenguaje ==
  pc[Original] = "detectado" =>
    LET m == user_message[Original]
        r == chat_assistant[Original].lenguaje_actual
        n == Len(lenguajes_keywords)
    IN /\ (\E i \in 1..n : TieneKeyword(i, m)) =>
            \E i \in 1..n :
              /\ TieneKeyword(i, m)
              /\ \A j \in 1..(i - 1) : ~TieneKeyword(j, m)
              /\ r = lenguajes_keywords[i].lenguaje
       /\ (\A i \in 1..n : ~TieneKeyword(i, m)) => r = General
       /\ (/\ Contiene(<< "d","e","f"," " >>, m)
           /\ Contiene(<< "c","o","n","s","o","l","e",".","l","o","g" >>, m)) => r = Python

\* a message with a JavaScript keyword followed by an upper-case Python
\* keyword has been classified as Python
C14_testigo ==
  /\ pc[Original] = "detectado"
  /\ user_message[Original] =
       << "c","o","n","s","o","l","e",".","l","o","g","D","E","F"," " >>
  /\ chat_assistant[Original].lenguaje_actual = Python

\* fragments with fences, language tags, inline marks, a keyword line and
\* whole blocks and spans
FragmentosExtraer ==
  { << BT, BT, BT, "\n" >>, << BT, BT, BT, "p", "y", "\n" >>, << BT, BT, BT >>,
    << BT >>, << "d","e","f"," ","f" >>, << " " >>, << "\n" >>, << "x" >>,
    << BT, BT, BT, "\n", " ", "x", " ", "\n", BT, BT, BT >>,
    << BT, BT, BT, "\n", " ", "\n", BT, BT, BT >>,
    << BT, "y", BT >> }

InitExtraer == InitTexto(Mensajes(FragmentosExtraer, MaxFragmentos))

\* line 201: codigo_usuario = self.extraer_codigo_usuario(user_message)
TxtExtraer ==
  /\ pc[Original] = "mensaje"
  /\ llamada' = [hecha |-> TRUE, funcion |-> "extraer_codigo_usuario",
                 resultado |-> extraer_codigo_usuario(user_message[Original])]
  /\ pc' = [pc EXCEPT ![Original] = "extraido"]
  /\ UNCHANGED << GROQ_AVAILABLE, session, archivo, reloj, uuids, atendidas,
                  registradas, perdida, navegador, cuerpo, user_message,
                  sesion_peticion, chat_assistant, cargado, result, intentos,
                  evaluaciones, exitos_api, lectura, guardado, messages >>

NextExtraer == TxtExtraer

SpecExtraer == InitExtraer /\ [][NextExtraer]_vars

\* the fenced blocks of s by position of their opening fence, and the
\* content of the first one
Bloques(s) == {i \in 1..Len(s) : HayBloque(s, i)}
PrimerBloque(s) == ContenidoBloque(s, CHOOSE i \in Bloques(s) : \A j \in Bloques(s) : i <= j)

\* C15: extraer_codigo_usuario never returns an empty result for a non-empty
\* message, and for a message with a fenced block whose first block has
\* content other than whitespace it returns that content trimmed.
C15_extraccion_no_vacia ==
  pc[Original] = "extraido" =>
    LET m == user_message[Original]
        r == llamada.resultado
    IN /\ (Len(m) > 0) => (Len(r) > 0)
       /\ (Bloques(m) # {} /\ ~EsBlanco(PrimerBloque(m))) => r = strip(PrimerBloque(m))

\* the history entry that line 261 appends for the reply sent in result r
MensajeAsistente(r) ==
  [role |-> "assistant", content |-> r.response, code_snippet |-> None]

\* C16: in a /chat request the user message is appended before analysis
\* starts; a successful analysis, working on the history that ends with that
\* message, detects the language, calls the gateway with it, formats the raw
\* reply, appends the formatted reply as the assistant message and records
\* that reply for learning exactly once, all before the session is
\* serialized; the record then stored holds both messages; and a request
\* that fails records nothing for learning.
C16_orden_del_intercambio ==
  [][\A p \in Peticiones :
       /\ (pc[p] = "cargar" /\ pc'[p] = "analizar") =>
            /\ chat_assistant'[p].history =
                 Append(DatosLeidos(p).history, MensajeUsuario(p))'
            /\ evaluaciones'[p] = 0
            /\ messages'[p] = << >> /\ intentos'[p] = << >>
            /\ session' = session
       /\ (pc[p] = "analizar" /\ pc'[p] = "responder" /\ result'[p].success) =>
            LET antes == chat_assistant[p]
                despues == chat_assistant'[p]
                lenguaje == detectar_lenguaje(user_message[p])
                r == result'[p]
            IN /\ antes.history[Len(antes.history)] = MensajeUsuario(p)
               /\ evaluaciones[p] = 0
               /\ despues.lenguaje_actual = lenguaje /\ r.lenguaje = lenguaje
               /\ messages'[p] = messages_de(antes, user_message[p], lenguaje)
               /\ intentos'[p] # << >>
               /\ \E raw \in Respuestas :
                    r.response =
                      generar_respuesta_estructurada(user_message[p], raw, lenguaje)
               /\ despues.history = Append(antes.history, MensajeAsistente(r))
               /\ evaluaciones'[p] = 1
               /\ VecesEn(despues.sistema_aprendizaje, ClaveDe(r)) =
                    VecesEn(antes.sistema_aprendizaje, ClaveDe(r)) + 1
               /\ \A k \in DOMAIN despues.sistema_aprendizaje \ {ClaveDe(r)} :
                    /\ k \in DOMAIN antes.sistema_aprendizaje
                    /\ despues.sistema_aprendizaje[k] = antes.sistema_aprendizaje[k]
               /\ ClaveDe(r) \in registradas'
               /\ session' = session
       /\ (Sale(p) /\ result[p].success) =>
            LET escrito == session'[navegador[p]].chat_session
                n == Len(escrito.history)
            IN /\ evaluaciones[p] = 1
               /\ escrito = to_dict(chat_assistant[p])
               /\ escrito.history[n - 1] = MensajeUsuario(p)
               /\ escrito.history[n] = MensajeAsistente(result[p])
               /\ UNCHANGED << archivo, registradas >>
       /\ (pc'[p] = "responder" /\ ~result'[p].success) =>
            /\ evaluaciones'[p] = 0
            /\ pc[p] = "analizar" =>
                 /\ chat_assistant'[p].sistema_aprendizaje = cargado[p]
                 /\ UNCHANGED << archivo, registradas >>
    ]_vars

\* a successful request of a conversation that already had an exchange is
\* about to answer, with its one record made and the browser still holding
\* the record without this exchange
C16_testigo ==
  \E p \in Peticiones :
    /\ pc[p] = "responder"
    /\ result[p].success
    /\ evaluaciones[p] = 1
    /\ Len(chat_assistant[p].history) = 4
    /\ TieneSesion(session[navegador[p]])
    /\ Len(session[navegador[p]].chat_session.history) = 2

\* ------------------------------------------------ obtener_mejor_respuesta
\* largest number of entries of one language in the store
MaxEntradas == 4

\* line 108: 3600 seconds, the clock counting half hours
UnaHora == 2

\* the key of line 103: efectividad_total / veces_usada, or 0 when the entry
\* was never used, as a fraction << numerator, denominator >>
clave_orden(stats) == IF stats.veces_usada > 0 THEN << stats.efectividad_total, stats.veces_usada >> ELSE << 0, 1 >>

MayorClave(a, b) == a[1] * b[2] > b[1] * a[2]

\* respuestas_efectivas[lenguaje].items(): the entries of the language in
\* insertion order.  orden is the order in which the keys of the dict were
\* inserted.
items_de(respuestas_efectivas, orden, lenguaje) ==
  LET claves == SelectSeq(orden, LAMBDA k : k[1] = lenguaje /\ k \in DOMAIN respuestas_efectivas)
  IN [i \in 1..Len(claves) |->
        [respuesta |-> claves[i][2], stats |-> respuestas_efectivas[claves[i]]]]

\* sorted(..., reverse=True) is stable: an item goes before the first item
\* with a strictly smaller key, after those with an equal one
RECURSIVE insertar(_, _)
insertar(ordenadas, x) ==
  IF ordenadas = << >> THEN << x >>
  ELSE IF MayorClave(clave_orden(x.stats), clave_orden(Head(ordenadas).stats))
       THEN << x >> \o ordenadas
       ELSE << Head(ordenadas) >> \o insertar(Tail(ordenadas), x)

RECURSIVE sorted_reverse(_)
sorted_reverse(items) ==
  IF items = << >> THEN << >>
  ELSE insertar(sorted_reverse(SubSeq(items, 1, Len(items) - 1)), items[Len(items)])

\* lines 106-109: the first item used more than an hour before ahora
RECURSIVE primera_antigua(_, _)
primera_antigua(items, ahora) ==
  IF items = << >> THEN None
  ELSE IF ahora - Head(items).stats.ultimo_uso > UnaHora THEN Head(items).respuesta
       ELSE primera_antigua(Tail(items), ahora)

\* obtener_mejor_respuesta, had line 106 looked at every item and not only
\* at respuestas_ordenadas[:3]
obtener_mejor_respuesta_sin_tope(respuestas_efectivas, orden, lenguaje, ahora) ==
  primera_antigua(sorted_reverse(items_de(respuestas_efectivas, orden, lenguaje)), ahora)

\* obtener_mejor_respuesta(lenguaje, contexto), lines 100-110; contexto is
\* not used by the code
obtener_mejor_respuesta(respuestas_efectivas, orden, lenguaje, ahora) ==
  LET respuestas_ordenadas == sorted_reverse(items_de(respuestas_efectivas, orden, lenguaje))
  IN primera_antigua(SubSeq(respuestas_ordenadas, 1, Min(3, Len(respuestas_ordenadas))), ahora)

\* One SistemaAprendizaje instance whose dict holds one JavaScript entry and
\* up to MaxEntradas Python entries, as evaluar_respuesta leaves them: used
\* once with effectiveness 1 or 10, or twice with 4 and 7; last used three
\* half hours ago, exactly one hour ago, or now.
Respuesta(i) == [j \in 1..i |-> "r"]
EstadisticasPosibles ==
  { [efectividad_total |-> e[1], veces_usada |-> e[2], ultimo_uso |-> u] :
      e \in { << Decimas, 1 >>, << 10 * Decimas, 1 >>, << 11 * Decimas, 2 >> },
      u \in { 0, UnaHora - 1, UnaHora + 1 } }

InitMejor ==
  /\ GROQ_AVAILABLE = TRUE
  /\ session = [b \in Navegadores |-> SesionVacia]
  /\ archivo = ArchivoAusente
  /\ reloj = UnaHora + 1
  /\ uuids = 1
  /\ atendidas = 0
  /\ registradas = {}
  /\ perdida = FALSE
  /\ pc = [p \in Peticiones |-> IF p = Original THEN "instancia" ELSE "idle"]
  /\ \E n \in 0..MaxEntradas : \E f \in [1..n -> EstadisticasPosibles] :
       LET otra == << JavaScript, Respuesta(1) >>
           propias == [i \in 1..n |-> << Python, Respuesta(i) >>]
           d == [k \in {otra} \cup {propias[i] : i \in 1..n} |->
                   IF k = otra
                   THEN [efectividad_total |-> 10 * Decimas, veces_usada |-> 1,
                         ultimo_uso |-> 0]
                   ELSE f[Len(k[2])]]
       IN /\ chat_assistant =
               [p \in Peticiones |->
                  IF p = Original THEN CodeChatAssistant(1, d) ELSE SinAsistente]
          /\ llamada = [hecha |-> FALSE, orden |-> << otra >> \o propias]
  /\ navegador = [p \in Peticiones |-> "-"]
  /\ cuerpo = [p \in Peticiones |-> << >>]
  /\ user_message = [p \in Peticiones |-> << >>]
  /\ sesion_peticion = [p \in Peticiones |-> SesionVacia]
  /\ cargado = [p \in Peticiones |-> SinRespuestas]
  /\ result = [p \in Peticiones |-> SinResultado]
  /\ intentos = [p \in Peticiones |-> << >>]
  /\ evaluaciones = [p \in Peticiones |-> 0]
  /\ exitos_api = [p \in Peticiones |-> << >>]
  /\ lectura = [p \in Peticiones |-> TRUE]
  /\ guardado = [p \in Peticiones |-> "-"]
  /\ messages = [p \in Peticiones |-> << >>]

\* sistema_aprendizaje.obtener_mejor_respuesta(lenguaje, ''), datetime.now()
\* returning reloj
AprMejor(lenguaje) ==
  /\ ~llamada.hecha
  /\ llamada' = [hecha |-> TRUE, funcion |-> "obtener_mejor_respuesta",
                 orden |-> llamada.orden, lenguaje |-> lenguaje,
                 resultado |->
                   obtener_mejor_respuesta(chat_assistant[Original].sistema_aprendizaje,
                                           llamada.orden, lenguaje, reloj)]
  /\ UNCHANGED << GROQ_AVAILABLE, session, archivo, reloj, uuids, atendidas,
                  registradas, perdida, locales >>

NextMejor == \E lenguaje \in {Python, General} : AprMejor(lenguaje)

SpecMejor == InitMejor /\ [][NextMejor]_vars

\* the positions in orden of the entries of the language asked for; the
\* rank of one of them when they are sorted by average effectiveness,
\* highest first, entries with equal averages in insertion order; whether it
\* was last used more than an hour ago
EntradasDe(lenguaje) == {i \in 1..Len(llamada.orden) : llamada.orden[i][1] = lenguaje}
EstadisticasDe(i) == chat_assistant[Original].sistema_aprendizaje[llamada.orden[i]]
PromedioMayor(i, j) == EstadisticasDe(i).efectividad_total * EstadisticasDe(j).veces_usada > EstadisticasDe(j).efectividad_total * EstadisticasDe(i).veces_usada
Rango(i) == 1 + Cardinality({j \in EntradasDe(llamada.orden[i][1]) : PromedioMayor(j, i) \/ (j < i /\ ~PromedioMayor(i, j))})
Antigua(i) == reloj - EstadisticasDe(i).ultimo_uso > UnaHora
Candidatas(lenguaje) == {i \in EntradasDe(lenguaje) : Rango(i) <= 3 /\ Antigua(i)}

\* C17: obtener_mejor_respuesta returns the best-ranked entry of the language,
\* among its three entries of highest average effectiveness, that was last
\* used more than one hour ago; it returns None when the language has no
\* entries or when those three were all used within the last hour; what it
\* returns is never ranked below third, never used within the last hour and
\* never an entry of another language.
C17_mejor_respuesta ==
  (llamada.hecha /\ llamada.funcion = "obtener_mejor_respuesta") =>
    LET r == llamada.resultado
        c == Candidatas(llamada.lenguaje)
    IN /\ (EntradasDe(llamada.lenguaje) = {}) => (r = None)
       /\ (c = {}) <=> (r = None)
       /\ (c # {}) =>
            \E i \in c : /\ r = llamada.orden[i][2]
                         /\ \A j \in c : Rango(i) <= Rango(j)
                         /\ \A j \in EntradasDe(llamada.lenguaje) :
                              PromedioMayor(j, i) => ~Antigua(j)

\* the language has four entries; the two of highest average were used
\* within the last hour, the third is returned, and the fourth, used more
\* than an hour ago as well, is not
C17_testigo ==
  /\ llamada.hecha /\ llamada.funcion = "obtener_mejor_respuesta"
  /\ llamada.lenguaje = Python
  /\ Cardinality(EntradasDe(Python)) = 4
  /\ \E i, j \in EntradasDe(Python) :
       /\ llamada.resultado = llamada.orden[i][2]
       /\ Rango(i) = 3
       /\ Rango(j) = 4 /\ Antigua(j)

\* every entry of the dict d was used at least once and its total lies
\* between 1 and 10 per use (totals in tenths)
EntradasAcotadas(d) ==
  \A k \in DOMAIN d :
    /\ d[k].veces_usada >= 1
    /\ Decimas * d[k].veces_usada <= d[k].efectividad_total
    /\ d[k].efectividad_total <= 10 * Decimas * d[k].veces_usada

\* C18: starting from an empty store, after any sequence of evaluar_respuesta
\* calls (and reloads of the file they wrote) every entry of the dict and of
\* the file has veces_usada >= 1 and veces_usada <= efectividad_total <=
\* 10 * veces_usada, so its average lies in [1, 10]; no entry is left with
\* veces_usada = 0.
C18_entradas_acotadas ==
  /\ EntradasAcotadas(chat_assistant[Original].sistema_aprendizaje)
  /\ EntradasAcotadas(archivo.datos)
  /\ \A k \in DOMAIN chat_assistant[Original].sistema_aprendizaje :
       ~EsBlanco(k[1]) /\ ~EsBlanco(k[2])

\* after three calls one entry has been used three times, with engagements
\* below 1, above 10 and in between
C18_testigo ==
  /\ evaluaciones[Original] = 3
  /\ \E k \in DOMAIN chat_assistant[Original].sistema_aprendizaje :
       LET e == chat_assistant[Original].sistema_aprendizaje[k]
       IN /\ e.veces_usada = 3
          /\ e.efectividad_total = Decimas + 10 * Decimas + 37
  /\ archivo.existe /\ archivo.legible
  /\ archivo.datos = chat_assistant[Original].sistema_aprendizaje

\* C19: with the gateway not configured, a /chat request with a non-empty
\* message answers with the failure payload of line 233 having attempted no
\* model and built no message list, appended no assistant message, made no
\* learning update and left the language of the session as it was read; the
\* user message is appended to the history that was read and the counter is
\* the one read plus one.  The learning file is never written.
C19_sin_groq ==
  ~GROQ_AVAILABLE =>
    /\ archivo = ArchivoAusente
    /\ registradas = {}
    /\ \A p \in Peticiones :
         (pc[p] = "responder" /\ ~EsBlanco(cuerpo[p])) =>
           LET leido == DatosLeidos(p)
               obj == chat_assistant[p]
           IN /\ result[p] = ErrorSinGroq
              /\ ~result[p].success
              /\ intentos[p] = << >> /\ exitos_api[p] = << >>
              /\ messages[p] = << >>
              /\ obj.history = Append(leido.history, MensajeUsuario(p))
              /\ \A i \in 1..Len(obj.history) : obj.history[i].role = "user"
              /\ obj.contador_interacciones = leido.contador_interacciones + 1
              /\ obj.lenguaje_actual = leido.lenguaje_actual
              /\ obj.session_id = leido.session_id
              /\ evaluaciones[p] = 0
              /\ obj.sistema_aprendizaje = cargado[p]
              /\ guardado[p] = "-"

\* without gateway, the second request of a conversation is about to answer
C19_testigo ==
  /\ ~GROQ_AVAILABLE
  /\ \E p \in Peticiones :
       /\ pc[p] = "responder"
       /\ result[p] = ErrorSinGroq
       /\ TieneSesion(sesion_peticion[p])
       /\ Len(sesion_peticion[p].chat_session.history) = 1
       /\ Len(chat_assistant[p].history) = 2
       /\ chat_assistant[p].contador_interacciones = 2

\* C20: every session record the browser holds, whether created by index,
\* new_chat or a first chat request, has contador_interacciones equal to the
\* length of its history after any sequence of chat requests; so has the
\* object of every request in progress, and every success payload reports
\* interacciones = history_length.
C20_contador_igual_historial ==
  /\ \A b \in Navegadores :
       TieneSesion(session[b]) =>
         session[b].chat_session.contador_interacciones =
           Len(session[b].chat_session.history)
  /\ \A p \in Peticiones :
       /\ chat_assistant[p] # SinAsistente =>
            chat_assistant[p].contador_interacciones = Len(chat_assistant[p].history)
       /\ (pc[p] = "responder" /\ result[p].success) =>
            /\ result[p].interacciones = result[p].history_length
            /\ result[p].history_length = Len(chat_assistant[p].history)

\* the second successful exchange of a conversation reports four
\* interactions and four messages, the first one having stored two and two
C20_testigo ==
  \E p \in Peticiones :
    /\ pc[p] = "responder"
    /\ result[p].success
    /\ result[p].interacciones = 4
    /\ result[p].history_length = 4
    /\ TieneSesion(sesion_peticion[p])
    /\ sesion_peticion[p].chat_session.contador_interacciones = 2
    /\ Len(sesion_peticion[p].chat_session.history) = 2

====
